---- MODULE Spec2Model ----
(***************************************************************************)
(* Model of src/api/python/swap.py: the Gradio face-swap handler           *)
(* face_swap and the stage functions it calls, run by concurrently served  *)
(* requests that share the module-level list log_messages, the output      *)
(* directory and the model files on disk.                                  *)
(***************************************************************************)
EXTENDS Integers, Sequences, FiniteSets, TLC

\* Number of face_swap invocations; each may overlap with the others.
MaxRequests == 2
\* Largest number of faces the detector returns for one image.
MaxFaces == 2
\* Width and height of the images the compositing is run on.
ImgW == 7
ImgH == 6

Requests == 1..MaxRequests

None == "None"

\* The stages of face_swap in the order of its body (lines 174-199).
StageOrder ==
    <<"validate", "init", "detect", "select_source", "select_target", "swap", "enhance">>

StageIndex(s) == CHOOSE i \in 1..Len(StageOrder) : StageOrder[i] = s

\* output/output.jpg does not exist (its content is named by a request).
NoFile == 0

\* output_path = os.path.join(output_dir, "output.jpg")
OutputPath == "output/output.jpg"

VARIABLES
    log_messages,   \* the module-level list: per emitting request, its lines in list order
    dirExists,      \* os.path.exists(output_dir)
    outputFile,     \* request whose image output/output.jpg holds, or NoFile
    modelsOnDisk,   \* the model files and buffalo_l directory are present
    analysisInits,  \* FaceAnalysis objects constructed so far
    swapperLoads,   \* inswapper models loaded so far
    enhancerLoads,  \* GFPGANer objects constructed so far
    pc,             \* position of each request in face_swap
    source_img, target_img,
    app, source_faces, target_faces, source_face, target_face, result,
    error, output_path,
    stage,          \* the stage whose error text is being joined
    pendingText,    \* argument of the log_message call whose value is returned
    ret,            \* the pair face_swap returned
    trace,          \* history: stages executed by the request, in order
    failedStages,   \* history: stages that returned an error or raised
    raised,         \* history: some library or OS call of the request raised
    missingInput,   \* history: source_img or target_img was None
    detected,       \* history: app.get ran
    zeroFaces,      \* history: app.get found no face in one of the images
    swapArgs,       \* history: the faces handed to swapper.get
    emitted,        \* history: the lines the request appended
    diskAtValidate, \* history: modelsOnDisk as validate_paths saw it
    fileAtReturn,   \* history: outputFile when face_swap returned
    swapPc,         \* position in the compositing of perform_face_swap
    bbox,           \* target_face.bbox, the corners <<x0, y0, x1, y1>>
    target_img_np,  \* the target image, pixel -> value
    swapped,        \* what swapper.get returned, pixel -> value
    mask,           \* the mask, pixel -> weight
    composite       \* the blended result, pixel -> value

vars == <<log_messages, dirExists, outputFile, modelsOnDisk, analysisInits,
          swapperLoads, enhancerLoads, pc, source_img, target_img, app,
          source_faces, target_faces, source_face, target_face, result,
          error, output_path, stage, pendingText, ret, trace, failedStages,
          raised, missingInput, detected, zeroFaces, swapArgs, emitted,
          diskAtValidate, fileAtReturn, swapPc, bbox, target_img_np,
          swapped, mask, composite>>

----------------------------------------------------------------------------
\* Texts: a text is the lines it holds, grouped by the request that wrote them.

\* Owner 0 is the module's __main__ block (line 231).
Owners == 0..MaxRequests

EmptyText == [q \in Owners |-> <<>>]

Line(r, msg) == [EmptyText EXCEPT ![r] = <<msg>>]

Concat(t, u) == [q \in Owners |-> t[q] \o u[q]]

\* "\n".join(log_messages)
Join(log) == log

\* None where a text is expected (a text is never the empty tuple).
NoText == <<>>

\* Python truthiness of `if error:` for None or a string.
Truthy(e) == e # NoText /\ \E q \in Owners : e[q] # <<>>

Contains(t, r, msg) == \E i \in 1..Len(t[r]) : t[r][i] = msg

\* None where a face or a list of faces is expected (0 is no face).
NoFace == 0
NoList == <<NoFace>>

\* A detected face is named by the rank of its bbox area among the faces of
\* its image: face f is larger than face g iff f > g.
Area(f) == f

\* What app.get may return: the faces of an image, in any order.
FaceLists ==
    UNION {{s \in [1..n -> 1..n] : \A i, j \in 1..n : i # j => s[i] # s[j]} :
             n \in 0..MaxFaces}

----------------------------------------------------------------------------
\* log_message(message), line 31: log_messages.append(...)
Log(r, msgs) ==
    /\ log_messages' = [log_messages EXCEPT ![r] = @ \o msgs]
    /\ emitted' = [emitted EXCEPT ![r] = @ \o msgs]

\* A validation that remembers an earlier request's failure.
validate_paths_sticky ==
    /\ modelsOnDisk
    /\ \A q \in Requests : "validate" \notin failedStages[q]

\* validate_paths(): every required file and directory is present.
validate_paths == modelsOnDisk

\* A selection of the face with the largest bbox.
select_largest_face(faces) ==
    CHOOSE f \in {faces[i] : i \in 1..Len(faces)} :
        \A i \in 1..Len(faces) : Area(f) >= Area(faces[i])

\* select_source_face(source_faces): source_faces[0]
select_source_face(faces) == faces[1]

\* target_face = target_faces[0]
select_target_face(faces) == faces[1]

\* The stage face_swap calls after `s` when `s` reported no error.
NextPc(s) ==
    IF s = "enhance" THEN "finish" ELSE StageOrder[StageIndex(s) + 1]

Enter(r, s) == trace' = [trace EXCEPT ![r] = Append(@, s)]

Fail(r, s) == failedStages' = [failedStages EXCEPT ![r] = @ \cup {s}]

Raise(r) == raised' = [raised EXCEPT ![r] = TRUE]

Goto(r, l) == pc' = [pc EXCEPT ![r] = l]

\* No request has arrived yet.
Idle ==
    /\ log_messages = Line(0, "Launching Gradio interface...")
    /\ outputFile = NoFile
    /\ modelsOnDisk = FALSE
    /\ analysisInits = 0
    /\ swapperLoads = 0
    /\ enhancerLoads = 0
    /\ pc = [r \in Requests |-> "idle"]
    /\ source_img = [r \in Requests |-> None]
    /\ target_img = [r \in Requests |-> None]
    /\ app = [r \in Requests |-> None]
    /\ source_faces = [r \in Requests |-> NoList]
    /\ target_faces = [r \in Requests |-> NoList]
    /\ source_face = [r \in Requests |-> NoFace]
    /\ target_face = [r \in Requests |-> NoFace]
    /\ result = [r \in Requests |-> None]
    /\ error = [r \in Requests |-> NoText]
    /\ output_path = [r \in Requests |-> None]
    /\ stage = [r \in Requests |-> None]
    /\ pendingText = [r \in Requests |-> NoText]
    /\ ret = [r \in Requests |-> <<>>]
    /\ trace = [r \in Requests |-> <<>>]
    /\ failedStages = [r \in Requests |-> {}]
    /\ raised = [r \in Requests |-> FALSE]
    /\ missingInput = [r \in Requests |-> FALSE]
    /\ detected = [r \in Requests |-> FALSE]
    /\ zeroFaces = [r \in Requests |-> FALSE]
    /\ swapArgs = [r \in Requests |-> <<>>]
    /\ emitted = [r \in Requests |-> <<>>]
    /\ diskAtValidate = [r \in Requests |-> FALSE]
    /\ fileAtReturn = [r \in Requests |-> NoFile]

\* No compositing is looked at.
SwapOff ==
    /\ swapPc = "off"
    /\ bbox = <<0, 0, 0, 0>>
    /\ target_img_np = <<>>
    /\ swapped = <<>>
    /\ mask = <<>>
    /\ composite = <<>>

Init ==
    /\ Idle
    /\ dirExists \in BOOLEAN
    /\ SwapOff

\* The model files are downloaded or restored outside the program.
ProvisionModels ==
    /\ ~modelsOnDisk
    /\ modelsOnDisk' = TRUE
    /\ UNCHANGED <<log_messages, dirExists, outputFile, analysisInits,
                swapperLoads, enhancerLoads, pc, source_img, target_img,
                app, source_faces, target_faces, source_face, target_face,
                result, error, output_path, stage, pendingText, ret, trace,
                failedStages, raised, missingInput, detected, zeroFaces,
                swapArgs, emitted, diskAtValidate, fileAtReturn, swapPc,
                bbox, target_img_np, swapped, mask, composite>>

\* face_swap(source_img, target_img), lines 162-166: log_messages = []
Start(r) ==
    /\ pc[r] = "idle"
    /\ \A q \in Requests : q < r => pc[q] # "idle"
    /\ \E s \in {None, "img"}, t \in {None, "img"} :
          /\ source_img' = [source_img EXCEPT ![r] = s]
          /\ target_img' = [target_img EXCEPT ![r] = t]
          /\ missingInput' = [missingInput EXCEPT ![r] = s = None \/ t = None]
    /\ log_messages' = EmptyText
    /\ Goto(r, "start")
    /\ UNCHANGED <<dirExists, outputFile, modelsOnDisk, analysisInits,
                swapperLoads, enhancerLoads, app, source_faces,
                target_faces, source_face, target_face, result, error,
                output_path, stage, pendingText, ret, trace, failedStages,
                raised, detected, zeroFaces, swapArgs, emitted,
                diskAtValidate, fileAtReturn, swapPc, bbox, target_img_np,
                swapped, mask, composite>>

\* line 169: log_message("Starting face swap process...")
LogStart(r) ==
    /\ pc[r] = "start"
    /\ Log(r, <<"Starting">>)
    /\ Goto(r, "exists")
    /\ UNCHANGED <<dirExists, outputFile, modelsOnDisk, analysisInits,
                swapperLoads, enhancerLoads, source_img, target_img, app,
                source_faces, target_faces, source_face, target_face,
                result, error, output_path, stage, pendingText, ret, trace,
                failedStages, raised, missingInput, detected, zeroFaces,
                swapArgs, diskAtValidate, fileAtReturn, swapPc, bbox,
                target_img_np, swapped, mask, composite>>

\* line 170: if os.path.exists(output_dir)
Exists(r) ==
    /\ pc[r] = "exists"
    /\ Goto(r, IF dirExists THEN "rmtree" ELSE "makedirs")
    /\ UNCHANGED <<log_messages, dirExists, outputFile, modelsOnDisk,
                analysisInits, swapperLoads, enhancerLoads, source_img,
                target_img, app, source_faces, target_faces, source_face,
                target_face, result, error, output_path, stage,
                pendingText, ret, trace, failedStages, raised,
                missingInput, detected, zeroFaces, swapArgs, emitted,
                diskAtValidate, fileAtReturn, swapPc, bbox, target_img_np,
                swapped, mask, composite>>

\* line 171: shutil.rmtree(output_dir); a directory already removed raises
\* into the handler of lines 203-205.
Rmtree(r) ==
    /\ pc[r] = "rmtree"
    /\ IF dirExists
          THEN /\ dirExists' = FALSE
               /\ outputFile' = NoFile
               /\ Goto(r, "makedirs")
               /\ UNCHANGED <<pendingText, raised>>
          ELSE /\ pendingText' = [pendingText EXCEPT ![r] = Line(r, "ErrUnexpected")]
               /\ Raise(r)
               /\ Goto(r, "ret_append")
               /\ UNCHANGED <<dirExists, outputFile>>
    /\ UNCHANGED <<log_messages, modelsOnDisk, analysisInits, swapperLoads,
                enhancerLoads, source_img, target_img, app, source_faces,
                target_faces, source_face, target_face, result, error,
                output_path, stage, ret, trace, failedStages, missingInput,
                detected, zeroFaces, swapArgs, emitted, diskAtValidate,
                fileAtReturn, swapPc, bbox, target_img_np, swapped, mask,
                composite>>

\* line 172: os.makedirs(output_dir, exist_ok=True)
Makedirs(r) ==
    /\ pc[r] = "makedirs"
    /\ dirExists' = TRUE
    /\ Goto(r, "validate")
    /\ UNCHANGED <<log_messages, outputFile, modelsOnDisk, analysisInits,
                swapperLoads, enhancerLoads, source_img, target_img, app,
                source_faces, target_faces, source_face, target_face,
                result, error, output_path, stage, pendingText, ret, trace,
                failedStages, raised, missingInput, detected, zeroFaces,
                swapArgs, emitted, diskAtValidate, fileAtReturn, swapPc,
                bbox, target_img_np, swapped, mask, composite>>

\* lines 174-177: validate_paths(), log_message(message), if not valid: return
Validate(r) ==
    /\ pc[r] = "validate"
    /\ Enter(r, "validate")
    /\ diskAtValidate' = [diskAtValidate EXCEPT ![r] = modelsOnDisk]
    /\ IF validate_paths
          THEN /\ Log(r, <<"Validating", "AllValid">>)
               /\ Goto(r, "init")
               /\ UNCHANGED <<pendingText, failedStages>>
          ELSE /\ Log(r, <<"Validating", "ErrNotFound">>)
               /\ Fail(r, "validate")
               /\ pendingText' =
                      [pendingText EXCEPT ![r] = Line(r, "PathValidationFailed")]
               /\ Goto(r, "ret_append")
               /\ TRUE
    /\ UNCHANGED <<dirExists, outputFile, modelsOnDisk, analysisInits,
                swapperLoads, enhancerLoads, source_img, target_img, app,
                source_faces, target_faces, source_face, target_face,
                result, error, output_path, stage, ret, raised,
                missingInput, detected, zeroFaces, swapArgs, fileAtReturn,
                swapPc, bbox, target_img_np, swapped, mask, composite>>

\* line 179: initialize_face_analysis(), lines 49-71
InitializeFaceAnalysis(r) ==
    /\ pc[r] = "init"
    /\ Enter(r, "init")
    /\ \/ /\ Log(r, <<"Initializing", "CudaAvailable", "Initialized">>)
          /\ analysisInits' = analysisInits + 1
          /\ app' = [app EXCEPT ![r] = "app"]
          /\ error' = [error EXCEPT ![r] = NoText]
          /\ Goto(r, "detect")
          /\ UNCHANGED <<failedStages, raised, stage>>
       \/ \* FaceAnalysis(...) or app.prepare raises
          /\ Log(r, <<"Initializing", "ErrInit">>)
          /\ Fail(r, "init")
          /\ Raise(r)
          /\ stage' = [stage EXCEPT ![r] = "init"]
          /\ Goto(r, "join")
          /\ UNCHANGED <<analysisInits, app, error>>
    /\ UNCHANGED <<dirExists, outputFile, modelsOnDisk, swapperLoads,
                enhancerLoads, source_img, target_img, source_faces,
                target_faces, source_face, target_face, result,
                output_path, pendingText, ret, missingInput, detected,
                zeroFaces, swapArgs, diskAtValidate, fileAtReturn, swapPc,
                bbox, target_img_np, swapped, mask, composite>>

\* The `return None, log_message(error_msg)` of a stage's except clause, from
\* line 33 on: the joined list becomes the stage's error, and face_swap's
\* `if error:` decides between returning and calling the next stage.
JoinError(r) ==
    /\ pc[r] = "join"
    /\ error' = [error EXCEPT ![r] = Join(log_messages)]
    /\ IF Truthy(Join(log_messages))
          THEN /\ pendingText' = [pendingText EXCEPT ![r] = Join(log_messages)]
               /\ Goto(r, "ret_append")
          ELSE /\ Goto(r, NextPc(stage[r]))
               /\ UNCHANGED pendingText
    /\ stage' = [stage EXCEPT ![r] = None]
    /\ UNCHANGED <<log_messages, dirExists, outputFile, modelsOnDisk,
                analysisInits, swapperLoads, enhancerLoads, source_img,
                target_img, app, source_faces, target_faces, source_face,
                target_face, result, output_path, ret, trace, failedStages,
                raised, missingInput, detected, zeroFaces, swapArgs,
                emitted, diskAtValidate, fileAtReturn, swapPc, bbox,
                target_img_np, swapped, mask, composite>>

\* line 183: load_and_detect_faces(app, source_img, target_img), lines 73-95
LoadAndDetectFaces(r) ==
    /\ pc[r] = "detect"
    /\ Enter(r, "detect")
    /\ IF source_img[r] = None \/ target_img[r] = None
          THEN \* line 78: the error string is returned, not logged
               /\ Log(r, <<"Loading">>)
               /\ Fail(r, "detect")
               /\ error' = [error EXCEPT ![r] = Line(r, "ErrNoneImage")]
               /\ pendingText' = [pendingText EXCEPT ![r] = Line(r, "ErrNoneImage")]
               /\ Goto(r, "ret_append")
               /\ UNCHANGED <<source_faces, target_faces, detected, zeroFaces,
                           raised, stage>>
          ELSE \/ \* app.get raises: always when app is None
                  /\ Log(r, <<"Loading", "ErrDetect">>)
                  /\ Fail(r, "detect")
                  /\ Raise(r)
                  /\ stage' = [stage EXCEPT ![r] = "detect"]
                  /\ Goto(r, "join")
                  /\ UNCHANGED <<source_faces, target_faces, detected,
                              zeroFaces, error, pendingText>>
               \/ /\ app[r] # None
                  /\ \E sf \in FaceLists, tf \in FaceLists :
                        /\ detected' = [detected EXCEPT ![r] = TRUE]
                        /\ Log(r, <<"Loading", "SourceCount", "TargetCount">>)
                        /\ IF Len(sf) = 0 \/ Len(tf) = 0
                              THEN /\ zeroFaces' = [zeroFaces EXCEPT ![r] = TRUE]
                                   /\ Fail(r, "detect")
                                   /\ error' = [error EXCEPT ![r] = Line(r, "ErrNoFaces")]
                                   /\ pendingText' =
                                          [pendingText EXCEPT ![r] = Line(r, "ErrNoFaces")]
                                   /\ Goto(r, "ret_append")
                                   /\ UNCHANGED <<source_faces, target_faces,
                                               raised, stage>>
                              ELSE /\ source_faces' = [source_faces EXCEPT ![r] = sf]
                                   /\ target_faces' = [target_faces EXCEPT ![r] = tf]
                                   /\ error' = [error EXCEPT ![r] = NoText]
                                   /\ Goto(r, "select_source")
                                   /\ UNCHANGED <<zeroFaces, pendingText,
                                               failedStages, raised, stage>>
    /\ UNCHANGED <<dirExists, outputFile, modelsOnDisk, analysisInits,
                swapperLoads, enhancerLoads, source_img, target_img, app,
                source_face, target_face, result, output_path, ret,
                missingInput, swapArgs, diskAtValidate, fileAtReturn,
                swapPc, bbox, target_img_np, swapped, mask, composite>>

\* line 187: select_source_face(source_faces), lines 97-106
SelectSourceFace(r) ==
    /\ pc[r] = "select_source"
    /\ Enter(r, "select_source")
    /\ IF source_faces[r] = NoList
          THEN \* None[0] raises TypeError
               /\ Log(r, <<"Selecting", "ErrSelect">>)
               /\ Fail(r, "select_source")
               /\ Raise(r)
               /\ stage' = [stage EXCEPT ![r] = "select_source"]
               /\ Goto(r, "join")
               /\ UNCHANGED <<source_face, error>>
          ELSE /\ Log(r, <<"Selecting", "UsingFirst">>)
               /\ source_face' =
                      [source_face EXCEPT ![r] = select_source_face(source_faces[r])]
               /\ error' = [error EXCEPT ![r] = NoText]
               /\ Goto(r, "select_target")
               /\ UNCHANGED <<failedStages, raised, stage>>
    /\ UNCHANGED <<dirExists, outputFile, modelsOnDisk, analysisInits,
                swapperLoads, enhancerLoads, source_img, target_img, app,
                source_faces, target_faces, target_face, result,
                output_path, pendingText, ret, missingInput, detected,
                zeroFaces, swapArgs, diskAtValidate, fileAtReturn, swapPc,
                bbox, target_img_np, swapped, mask, composite>>

\* lines 190-191: target_face = target_faces[0]; None[0] raises into the
\* handler of lines 203-205.
SelectTargetFace(r) ==
    /\ pc[r] = "select_target"
    /\ Enter(r, "select_target")
    /\ IF target_faces[r] = NoList
          THEN /\ Fail(r, "select_target")
               /\ Raise(r)
               /\ pendingText' = [pendingText EXCEPT ![r] = Line(r, "ErrUnexpected")]
               /\ Goto(r, "ret_append")
               /\ UNCHANGED <<target_face, log_messages, emitted>>
          ELSE /\ target_face' =
                      [target_face EXCEPT ![r] = select_target_face(target_faces[r])]
               /\ Log(r, <<"TargetAttrs">>)
               /\ Goto(r, "swap")
               /\ UNCHANGED <<failedStages, raised, pendingText>>
    /\ UNCHANGED <<dirExists, outputFile, modelsOnDisk, analysisInits,
                swapperLoads, enhancerLoads, source_img, target_img, app,
                source_faces, target_faces, source_face, result, error,
                output_path, stage, ret, missingInput, detected, zeroFaces,
                swapArgs, diskAtValidate, fileAtReturn, swapPc, bbox,
                target_img_np, swapped, mask, composite>>

\* line 193: perform_face_swap(source_face, target_face, target_img),
\* lines 108-139
PerformFaceSwap(r) ==
    /\ pc[r] = "swap"
    /\ Enter(r, "swap")
    /\ \/ \* get_model, swapper.get or the compositing raises
          /\ Log(r, <<"LoadingInswapper", "ErrSwap">>)
          /\ Fail(r, "swap")
          /\ Raise(r)
          /\ stage' = [stage EXCEPT ![r] = "swap"]
          /\ Goto(r, "join")
          /\ UNCHANGED <<swapperLoads, swapArgs, result, error>>
       \/ /\ source_face[r] # NoFace
          /\ target_face[r] # NoFace
          /\ Log(r, <<"LoadingInswapper", "InswapperLoaded", "SwapCompleted">>)
          /\ swapperLoads' = swapperLoads + 1
          /\ swapArgs' = [swapArgs EXCEPT ![r] = <<source_face[r], target_face[r]>>]
          /\ result' = [result EXCEPT ![r] = "swapped"]
          /\ error' = [error EXCEPT ![r] = NoText]
          /\ Goto(r, "enhance")
          /\ UNCHANGED <<failedStages, raised, stage>>
    /\ UNCHANGED <<dirExists, outputFile, modelsOnDisk, analysisInits,
                enhancerLoads, source_img, target_img, app, source_faces,
                target_faces, source_face, target_face, output_path,
                pendingText, ret, missingInput, detected, zeroFaces,
                diskAtValidate, fileAtReturn, swapPc, bbox, target_img_np,
                swapped, mask, composite>>

\* line 197: enhance_with_gfpgan(result), lines 141-160
EnhanceWithGfpgan(r) ==
    /\ pc[r] = "enhance"
    /\ Enter(r, "enhance")
    /\ \/ \* GFPGANer(...) or enhancer.enhance raises: always when result is None
          /\ Log(r, <<"Enhancing", "ErrEnhance">>)
          /\ Fail(r, "enhance")
          /\ Raise(r)
          /\ stage' = [stage EXCEPT ![r] = "enhance"]
          /\ Goto(r, "join")
          /\ UNCHANGED <<enhancerLoads, outputFile, output_path, error>>
       \/ \* line 155: cv2.imwrite returns False, and writes nothing, when
          \* the directory is gone; its value is not looked at
          /\ result[r] # None
          /\ Log(r, <<"Enhancing", "Saved">>)
          /\ enhancerLoads' = enhancerLoads + 1
          /\ outputFile' = IF dirExists THEN r ELSE outputFile
          /\ output_path' = [output_path EXCEPT ![r] = OutputPath]
          /\ error' = [error EXCEPT ![r] = NoText]
          /\ Goto(r, "finish")
          /\ UNCHANGED <<failedStages, raised, stage>>
    /\ UNCHANGED <<dirExists, modelsOnDisk, analysisInits, swapperLoads,
                source_img, target_img, app, source_faces, target_faces,
                source_face, target_face, result, pendingText, ret,
                missingInput, detected, zeroFaces, swapArgs,
                diskAtValidate, fileAtReturn, swapPc, bbox, target_img_np,
                swapped, mask, composite>>

\* line 201: the message whose append precedes the final join
Finish(r) ==
    /\ pc[r] = "finish"
    /\ pendingText' = [pendingText EXCEPT ![r] = Line(r, "Completed")]
    /\ Goto(r, "ret_append")
    /\ UNCHANGED <<log_messages, dirExists, outputFile, modelsOnDisk,
                analysisInits, swapperLoads, enhancerLoads, source_img,
                target_img, app, source_faces, target_faces, source_face,
                target_face, result, error, output_path, stage, ret, trace,
                failedStages, raised, missingInput, detected, zeroFaces,
                swapArgs, emitted, diskAtValidate, fileAtReturn, swapPc,
                bbox, target_img_np, swapped, mask, composite>>

\* line 31 of the log_message call whose value face_swap returns
\* (lines 177, 181, 185, 189, 195, 199, 201, 205)
ReturnAppend(r) ==
    /\ pc[r] = "ret_append"
    /\ log_messages' = Concat(log_messages, pendingText[r])
    /\ emitted' = [emitted EXCEPT ![r] = @ \o pendingText[r][r]]
    /\ Goto(r, "ret_join")
    /\ UNCHANGED <<dirExists, outputFile, modelsOnDisk, analysisInits,
                swapperLoads, enhancerLoads, source_img, target_img, app,
                source_faces, target_faces, source_face, target_face,
                result, error, output_path, stage, pendingText, ret, trace,
                failedStages, raised, missingInput, detected, zeroFaces,
                swapArgs, diskAtValidate, fileAtReturn, swapPc, bbox,
                target_img_np, swapped, mask, composite>>

\* line 33 (or the join of line 202) and the return: the locals die
ReturnJoin(r) ==
    /\ pc[r] = "ret_join"
    /\ ret' = [ret EXCEPT ![r] = [out |-> output_path[r], log |-> Join(log_messages)]]
    /\ fileAtReturn' = [fileAtReturn EXCEPT ![r] = outputFile]
    /\ Goto(r, "done")
    /\ source_img' = [source_img EXCEPT ![r] = None]
    /\ target_img' = [target_img EXCEPT ![r] = None]
    /\ app' = [app EXCEPT ![r] = None]
    /\ source_faces' = [source_faces EXCEPT ![r] = NoList]
    /\ target_faces' = [target_faces EXCEPT ![r] = NoList]
    /\ source_face' = [source_face EXCEPT ![r] = NoFace]
    /\ target_face' = [target_face EXCEPT ![r] = NoFace]
    /\ result' = [result EXCEPT ![r] = None]
    /\ error' = [error EXCEPT ![r] = NoText]
    /\ output_path' = [output_path EXCEPT ![r] = None]
    /\ pendingText' = [pendingText EXCEPT ![r] = NoText]
    /\ swapArgs' = [swapArgs EXCEPT ![r] = <<>>]
    /\ UNCHANGED <<log_messages, dirExists, outputFile, modelsOnDisk,
                analysisInits, swapperLoads, enhancerLoads, stage, trace,
                failedStages, raised, missingInput, detected, zeroFaces,
                emitted, diskAtValidate, swapPc, bbox, target_img_np,
                swapped, mask, composite>>

Next ==
    \/ ProvisionModels
    \/ \E r \in Requests :
          \/ Start(r)
          \/ LogStart(r)
          \/ Exists(r)
          \/ Rmtree(r)
          \/ Makedirs(r)
          \/ Validate(r)
          \/ InitializeFaceAnalysis(r)
          \/ JoinError(r)
          \/ LoadAndDetectFaces(r)
          \/ SelectSourceFace(r)
          \/ SelectTargetFace(r)
          \/ PerformFaceSwap(r)
          \/ EnhanceWithGfpgan(r)
          \/ Finish(r)
          \/ ReturnAppend(r)
          \/ ReturnJoin(r)

Spec == Init /\ [][Next]_vars

----------------------------------------------------------------------------
\* Statements about face_swap, checked under Spec.

Done(r) == pc[r] = "done"

Failed(r) == ret[r].out = None

Ran(r, s) == \E i \in 1..Len(trace[r]) : trace[r][i] = s

\* The stages a request executed are an initial part of StageOrder.
StagesInOrder(r) ==
    /\ Len(trace[r]) <= Len(StageOrder)
    /\ \A i \in 1..Len(trace[r]) : trace[r][i] = StageOrder[i]

\* Nothing after a failed stage was executed, and the request fails.
FailFast(r) ==
    \A s \in failedStages[r] :
        /\ \A i \in 1..Len(trace[r]) : StageIndex(trace[r][i]) <= StageIndex(s)
        /\ Done(r) => Failed(r)

\* C1: the stages of a request run in the order validate, init, detect,
\* select source, select target, swap, enhance, and once a stage has failed
\* (returned an error or raised) no later stage of that request is executed
\* and the request ends in a failure result.
C1_StagesOrderedFailFast ==
    \A r \in Requests : StagesInOrder(r) /\ FailFast(r)

\* C2: a request for which the detector found no face in the source or the
\* target image executes neither perform_face_swap nor enhance_with_gfpgan
\* and returns no output path and a text holding the no-face error.
C2_NoFaceFails ==
    \A r \in Requests :
        zeroFaces[r] =>
            /\ ~Ran(r, "swap")
            /\ ~Ran(r, "enhance")
            /\ Done(r) => Failed(r) /\ Contains(ret[r].log, r, "ErrNoFaces")

\* C3: every finished invocation returned either an output path with the
\* log text, or None with a non-empty error text.
C3_TwoTerminalResults ==
    \A r \in Requests :
        Done(r) =>
            \/ ret[r].out = OutputPath
            \/ Failed(r) /\ Truthy(ret[r].log)

\* C4: each of the three models (face locator, swapper, enhancer) is
\* initialised at most once in the life of the process.
C4_ModelsInitialisedOnce ==
    /\ analysisInits <= 1
    /\ swapperLoads <= 1
    /\ enhancerLoads <= 1

\* C5: a request whose source or target image is None runs no detection, no
\* swap and no enhancement, and returns no output path and a text that
\* reports the missing input (stated for the requests that get as far as
\* load_and_detect_faces, where the images are looked at).
C5_MissingInputFails ==
    \A r \in Requests :
        missingInput[r] =>
            /\ ~detected[r]
            /\ ~Ran(r, "swap")
            /\ ~Ran(r, "enhance")
            /\ Done(r) /\ Ran(r, "detect") =>
                  Failed(r) /\ Contains(ret[r].log, r, "ErrNoneImage")

\* No stage is executed twice by one request.
NoRetry(r) ==
    \A i, j \in 1..Len(trace[r]) : i # j => trace[r][i] # trace[r][j]

\* C6: readiness is checked once per request and a failed check ends the
\* request with nothing else executed; whatever earlier requests did, a
\* request whose readiness check ran with the models present, whose images
\* hold faces and in which no call raised, ends in success.
C6_ReadinessNotStickyNorRetried ==
    \A r \in Requests :
        /\ NoRetry(r)
        /\ "validate" \in failedStages[r] =>
              /\ trace[r] = <<"validate">>
              /\ Done(r) => Failed(r)
        /\ ( /\ Done(r)
             /\ Ran(r, "validate")
             /\ diskAtValidate[r]
             /\ ~missingInput[r]
             /\ ~zeroFaces[r]
             /\ ~raised[r] ) => ret[r].out = OutputPath

\* A request failed its readiness check and returned before a later request,
\* started once the models were there, succeeded.
C6_Witness ==
    \E q, r \in Requests :
        /\ q < r
        /\ Done(q) /\ "validate" \in failedStages[q] /\ Failed(q)
        /\ ret[q].log[r] = <<>>
        /\ Done(r) /\ diskAtValidate[r] /\ ret[r].out = OutputPath

\* C8: the faces handed to the swap are element 0 of the list the detector
\* returned for the source image and element 0 of the list it returned for
\* the target image, whatever the areas of the faces in those lists.
C8_FirstFaceSelected ==
    \A r \in Requests :
        swapArgs[r] # <<>> =>
            swapArgs[r] = <<source_faces[r][1], target_faces[r][1]>>

\* A swap ran on lists whose first face is not the largest one.
C8_Witness ==
    \E r \in Requests :
        /\ swapArgs[r] # <<>>
        /\ Len(source_faces[r]) >= 2
        /\ Len(target_faces[r]) >= 2
        /\ Area(source_faces[r][1]) < Area(source_faces[r][2])
        /\ Area(target_faces[r][1]) < Area(target_faces[r][2])

\* C9: when a request returns the output path, output/output.jpg exists at
\* that moment and holds the image that request wrote.
C9_SuccessHasOwnFile ==
    \A r \in Requests :
        Done(r) /\ ret[r].out = OutputPath => fileAtReturn[r] = r

\* C10: the text a request returns holds the lines that request appended,
\* from its "Starting face swap process..." on, all of them, and no line of
\* any other request or of earlier activity.
C10_LogIsOwn ==
    \A r \in Requests :
        Done(r) =>
            /\ ret[r].log[r] = emitted[r]
            /\ emitted[r] # <<>> /\ emitted[r][1] = "Starting"
            /\ \A q \in Owners : q # r => ret[r].log[q] = <<>>

----------------------------------------------------------------------------
\* The compositing of perform_face_swap, lines 124-133, on its own.

Pixels == (0..(ImgW - 1)) \X (0..(ImgH - 1))

\* cv2.GaussianBlur(mask, (9, 9), 0)
KernelSize == 9
KernelRadius == (KernelSize - 1) \div 2

\* cv2.getGaussianKernel(9, 0): sigma = 0.3*((9-1)*0.5 - 1) + 0.8 = 1.7, the
\* weights in thousandths.
Kernel == <<15, 50, 118, 199, 236, 199, 118, 50, 15>>

\* The values the images are filled with.
TargetColors == {10, 200}
SwappedColors == {10, 200, 255}

Uniform(c) == [p \in Pixels |-> c]

\* cv2.BORDER_REFLECT_101, the default border of GaussianBlur.
Reflect101(i, n) ==
    IF i < 0 THEN -i ELSE IF i >= n THEN 2 * (n - 1) - i ELSE i

RECURSIVE Taps(_, _)
\* Sum of Kernel[k] * f[k] over k in 1..n.
Taps(f, n) == IF n = 0 THEN 0 ELSE Kernel[n] * f[n] + Taps(f, n - 1)

\* Weight 1.0 of the blurred mask: both passes of the kernel over ones.
One ==
    LET sum == Taps([k \in 1..KernelSize |-> 1], KernelSize) IN sum * sum

BlurRows(m) ==
    [p \in Pixels |->
        Taps([k \in 1..KernelSize |->
                 m[<<Reflect101(p[1] + k - 1 - KernelRadius, ImgW), p[2]>>]],
             KernelSize)]

BlurCols(m) ==
    [p \in Pixels |->
        Taps([k \in 1..KernelSize |->
                 m[<<p[1], Reflect101(p[2] + k - 1 - KernelRadius, ImgH)>>]],
             KernelSize)]

\* line 131: mask = cv2.GaussianBlur(mask, (9, 9), 0)
GaussianBlur(m) == BlurCols(BlurRows(m))

\* line 130: cv2.rectangle(mask, pt1, pt2, 1.0, -1) on a mask of zeros: the
\* filled rectangle holds both corners and is clipped to the image.
Rectangle(pt1, pt2) ==
    [p \in Pixels |->
        IF pt1[1] <= p[1] /\ p[1] <= pt2[1] /\ pt1[2] <= p[2] /\ p[2] <= pt2[2]
        THEN 1 ELSE 0]

\* The mask drawn with bbox taken as the corners of the face.
face_mask_corners(b) == Rectangle(<<b[1], b[2]>>, <<b[3], b[4]>>)

\* lines 128-130: x, y, w, h = target_face.bbox.astype(int), and the
\* rectangle from (x, y) to (x + w, y + h)
face_mask(b) ==
    LET x == b[1]
        y == b[2]
        w == b[3]
        h == b[4]
    IN Rectangle(<<x, y>>, <<x + w, y + h>>)

\* line 133: (result * mask + target_img_np * (1 - mask)).astype(np.uint8)
Blend(res, tgt, m) ==
    [p \in Pixels |-> (res[p] * m[p] + tgt[p] * (One - m[p])) \div One]

\* The bboxes of a face inside the image.
Bboxes ==
    {b \in (0..(ImgW - 1)) \X (0..(ImgH - 1)) \X (0..(ImgW - 1)) \X (0..(ImgH - 1)) :
        b[1] <= b[3] /\ b[2] <= b[4]}

InitSwap ==
    /\ Idle
    /\ dirExists = FALSE
    /\ swapPc = "swapped"
    /\ bbox \in Bboxes
    /\ \E c \in TargetColors : target_img_np = Uniform(c)
    /\ \E c \in SwappedColors : swapped = Uniform(c)
    /\ mask = <<>>
    /\ composite = <<>>

\* lines 128-130
DrawMask ==
    /\ swapPc = "swapped"
    /\ mask' = face_mask(bbox)
    /\ swapPc' = "drawn"
    /\ UNCHANGED <<log_messages, dirExists, outputFile, modelsOnDisk,
                analysisInits, swapperLoads, enhancerLoads, pc, source_img,
                target_img, app, source_faces, target_faces, source_face,
                target_face, result, error, output_path, stage,
                pendingText, ret, trace, failedStages, raised,
                missingInput, detected, zeroFaces, swapArgs, emitted,
                diskAtValidate, fileAtReturn, bbox, target_img_np, swapped,
                composite>>

\* lines 131-132
BlurMask ==
    /\ swapPc = "drawn"
    /\ mask' = GaussianBlur(mask)
    /\ swapPc' = "blurred"
    /\ UNCHANGED <<log_messages, dirExists, outputFile, modelsOnDisk,
                analysisInits, swapperLoads, enhancerLoads, pc, source_img,
                target_img, app, source_faces, target_faces, source_face,
                target_face, result, error, output_path, stage,
                pendingText, ret, trace, failedStages, raised,
                missingInput, detected, zeroFaces, swapArgs, emitted,
                diskAtValidate, fileAtReturn, bbox, target_img_np, swapped,
                composite>>

\* line 133
Composite ==
    /\ swapPc = "blurred"
    /\ composite' = Blend(swapped, target_img_np, mask)
    /\ swapPc' = "done"
    /\ UNCHANGED <<log_messages, dirExists, outputFile, modelsOnDisk,
                analysisInits, swapperLoads, enhancerLoads, pc, source_img,
                target_img, app, source_faces, target_faces, source_face,
                target_face, result, error, output_path, stage,
                pendingText, ret, trace, failedStages, raised,
                missingInput, detected, zeroFaces, swapArgs, emitted,
                diskAtValidate, fileAtReturn, bbox, target_img_np, swapped,
                mask>>

NextSwap == DrawMask \/ BlurMask \/ Composite

SpecSwap == InitSwap /\ [][NextSwap]_vars

\* Distance of pixel p from the box b, 0 inside it.
Beyond(p, b) ==
    LET dx == IF p[1] < b[1] THEN b[1] - p[1]
              ELSE IF p[1] > b[3] THEN p[1] - b[3] ELSE 0
        dy == IF p[2] < b[2] THEN b[2] - p[2]
              ELSE IF p[2] > b[4] THEN p[2] - b[4] ELSE 0
    IN IF dx > dy THEN dx ELSE dy

\* C7: the mask drawn is 1.0 exactly on the bbox taken as the corners
\* <<x0, y0, x1, y1>>; the result has the pixels of the target image, every
\* pixel further than the kernel's radius from the bbox keeps the target
\* image's value, and a bbox of zero area leaves the image unchanged.
C7_MaskIsBboxCorners ==
    /\ swapPc = "drawn" => mask = face_mask_corners(bbox)
    /\ swapPc = "done" =>
          /\ DOMAIN composite = DOMAIN target_img_np
          /\ \A p \in Pixels :
                Beyond(p, bbox) > KernelRadius => composite[p] = target_img_np[p]
          /\ (bbox[1] = bbox[3] \/ bbox[2] = bbox[4]) => composite = target_img_np

====
